---- MODULE Spec2Model ----
(***************************************************************************)
(* Model of the one-to-many TCP relay in src/src/main.rs: the destination  *)
(* acceptor thread, the relay driver loop (main), the source session       *)
(* handler (handle_source) with its frame decoder and broadcast pass, and  *)
(* the checksum verifier (verify_checksum).                                *)
(***************************************************************************)
EXTENDS Integers, Sequences, FiniteSets, TLC

(***************************************************************************)
(* Program constants.                                                      *)
(***************************************************************************)
MAGIC == 204
HEADER_LEN == 8
CHECKSUM_INDEX == 4
PLACEHOLDER == 52428
READ_BUFFER_SIZE == 1024
SENSITIVE_SHIFT == 6

(***************************************************************************)
(* Bounds of the model.                                                    *)
(***************************************************************************)
MaxDests == 2
MaxSources == 2
MaxItems == 2
MaxPayloadLen == 3
MaxBurst == 3
MaxNoisy == 3
MaxRegistry == 4
MaxFair == 2

U16 == 65536

Min(a, b) == IF a < b THEN a ELSE b

RECURSIVE Pow2(_)
Pow2(k) == IF k = 0 THEN 1 ELSE 2 * Pow2(k - 1)

(* bit k of byte b *)
Bit(b, k) == (b \div Pow2(k)) % 2

FlipBit(b, k) == IF Bit(b, k) = 1 THEN b - Pow2(k) ELSE b + Pow2(k)

(* u16::from_be_bytes([hi, lo]) *)
from_be_bytes(hi, lo) == hi * 256 + lo

(***************************************************************************)
(* verify_checksum (main.rs 106-131): the running u32 sum over the 2-byte  *)
(* words of the message, index 4 replaced by 0xCCCC, a missing low byte    *)
(* read as 0, the carry folded after every addition.  The sum is at most   *)
(* 0xFFFF before an addition, so the u32 addition never wraps.             *)
(***************************************************************************)
RECURSIVE Fold(_)
Fold(sum) == IF sum > 65535 THEN Fold((sum % U16) + (sum \div U16)) ELSE sum

(* mutant: the checksum field is summed as it stands in the message *)
WordAt_ReadsField(message, message_index) ==
    LET high_byte == message[message_index + 1]
        low_byte == IF message_index + 1 < Len(message)
                    THEN message[message_index + 2] ELSE 0
    IN  (high_byte * 256) + low_byte

WordAt(message, message_index) ==
    IF message_index = CHECKSUM_INDEX
    THEN PLACEHOLDER
    ELSE LET high_byte == message[message_index + 1]
             low_byte == IF message_index + 1 < Len(message)
                         THEN message[message_index + 2] ELSE 0
         IN  (high_byte * 256) + low_byte

RECURSIVE SumFrom(_, _, _)
SumFrom(message, message_index, sum) ==
    IF message_index < Len(message)
    THEN SumFrom(message, message_index + 2,
                 Fold(sum + WordAt(message, message_index)))
    ELSE sum

(* mutant: the carry out of 16 bits is dropped instead of folded back *)
verify_checksum_NoCarry(message, checksum) ==
    LET F[ix \in 0..(Len(message) + 1)] ==
            IF ix >= Len(message) THEN 0
            ELSE (WordAt(message, ix) + F[ix + 2]) % U16
    IN  (65535 - F[0]) = checksum

verify_checksum(message, checksum) ==
    LET sum == SumFrom(message, 0, 0)
        computed == 65535 - (sum % U16)
    IN  computed = checksum

(***************************************************************************)
(* The wire format as a sender produces it (header layout read back by     *)
(* handle_source at main.rs 61-68).  The sender's checksum is computed     *)
(* over the frame with 0xCC 0xCC in the checksum field: the plain sum of   *)
(* the big-endian words, zero padded, reduced end-around once at the end.  *)
(***************************************************************************)
to_be_bytes(v) == <<v \div 256, v % 256>>

FrameOf(options, ck, payload) ==
    <<MAGIC, options>> \o to_be_bytes(Len(payload)) \o to_be_bytes(ck)
        \o <<0, 0>> \o payload

RECURSIVE WordsTotal(_, _)
WordsTotal(bytes, ix) ==
    IF ix > Len(bytes) THEN 0
    ELSE bytes[ix] * 256 + (IF ix + 1 <= Len(bytes) THEN bytes[ix + 1] ELSE 0)
         + WordsTotal(bytes, ix + 2)

SenderChecksum(options, payload) ==
    LET total == WordsTotal(FrameOf(options, PLACEHOLDER, payload), 1)
    IN  65535 - (((total - 1) % 65535) + 1)

(* header fields of a complete frame *)
Length(frame) == from_be_bytes(frame[3], frame[4])
Stated(frame) == from_be_bytes(frame[5], frame[6])
Sensitive(frame) == Bit(frame[2], SENSITIVE_SHIFT) = 1
Payload(frame) == SubSeq(frame, HEADER_LEN + 1, Len(frame))

(* The frames a source sends in the relay model. *)
PlainFrame == FrameOf(0, 0, <<>>)
SensFrame == FrameOf(64, SenderChecksum(64, <<MAGIC>>), <<MAGIC>>)
BadFrame == [SensFrame EXCEPT ![5] = FlipBit(@, 0)]
Items == {PlainFrame, SensFrame, BadFrame}

(* a frame a correct sender produces: forwarded by a correct relay *)
ValidFrame(frame) ==
    Sensitive(frame) => Stated(frame) = SenderChecksum(frame[2], Payload(frame))

RECURSIVE Flatten(_)
Flatten(frames) ==
    IF frames = <<>> THEN <<>> ELSE Head(frames) \o Flatten(Tail(frames))

RECURSIVE SeqsUpTo(_, _)
SeqsUpTo(S, n) ==
    IF n = 0 THEN {<<>>}
    ELSE LET shorter == SeqsUpTo(S, n - 1)
         IN  shorter \cup {Append(q, x) : q \in shorter, x \in S}

Dests == 1..MaxDests
Sources == 1..MaxSources

VARIABLES
    destinations,   \* the registry: Vec<TcpStream>, as destination ids
    locked,         \* the Mutex around it
    acceptorPc,     \* acceptor thread: "accept" | "lock" | "push"
    stream,         \* the connection the acceptor holds between accept and push
    destCount,      \* destination connections accepted so far
    appendedAt,     \* per destination, the passes begun when it was pushed
                    \* (NotYet: not in the registry so far)
    destLog,        \* per destination, the write_all calls made on it
    driverPc,       \* main thread: "accept" | "read" | "lock" |
                    \*              "write" | "prune" | "exited"
    mainResult,     \* what main returned: "running" | "accept_err" | "read_err"
    source_stream,  \* the source connection of the running session (0: none)
    srcState,       \* per source: "idle" | "queued" | "active" | "closed"
    srcFrames,      \* per source: the frames it sends before it closes
    srcPos,         \* per source: bytes of its stream read so far
    buffer,         \* handle_source's buffer
    message,        \* the frame being dispatched
    to_remove,      \* indexes of the destinations whose write failed
    i,              \* index of the broadcast loop
    decoded,        \* every frame extracted from the buffer, in order
    ckFrame,        \* checksum harness: the frame under test
    ckPc,           \* checksum harness: "off" | "input" | "verified" |
                    \*                   "frame" | "checked" | "drained"
    ckVerdict,      \* checksum harness: verify_checksum's result
    ckFlipped,      \* checksum harness: a payload bit was flipped
    ckStated,       \* frame harness: the checksum argument of verify_checksum
    ckNext          \* frame harness: the drain iteration's outcome

relayVars == <<destinations, locked, acceptorPc, stream, destCount,
               appendedAt, destLog,
               driverPc, mainResult, source_stream, srcState, srcFrames, srcPos,
               buffer, message, to_remove, i, decoded>>
ckVars == <<ckFrame, ckPc, ckVerdict, ckFlipped, ckStated, ckNext>>
vars == <<relayVars, ckVars>>

acceptorVars == <<acceptorPc, stream, destCount, appendedAt>>
sessionVars == <<source_stream, buffer, message, to_remove, i, decoded>>
sourceVars == <<srcState, srcFrames, srcPos>>

StreamOf(s) == Flatten(srcFrames[s])
NotYet == 0 - 1

(* the broadcast passes that have taken the lock so far *)
PassesBegun == Len(SelectSeq(decoded, LAMBDA e : e.pass))
Running == mainResult = "running"

InitRelay ==
    /\ destinations = <<>>
    /\ locked = FALSE
    /\ acceptorPc = "accept"
    /\ stream = 0
    /\ destCount = 0
    /\ appendedAt = [d \in Dests |-> NotYet]
    /\ destLog = [d \in Dests |-> <<>>]
    /\ driverPc = "accept"
    /\ mainResult = "running"
    /\ source_stream = 0
    /\ srcState = [s \in Sources |-> "idle"]
    /\ srcFrames = [s \in Sources |-> <<>>]
    /\ srcPos = [s \in Sources |-> 0]
    /\ buffer = <<>>
    /\ message = <<>>
    /\ to_remove = <<>>
    /\ i = 0
    /\ decoded = <<>>

(* no drain iteration has run *)
NoDrain == [buffer |-> <<>>, frame |-> <<>>, next |-> "read"]

Init ==
    /\ InitRelay
    /\ ckFrame = <<>>
    /\ ckPc = "off"
    /\ ckVerdict = FALSE
    /\ ckFlipped = FALSE
    /\ ckStated = 0
    /\ ckNext = NoDrain

(***************************************************************************)
(* Destination acceptor thread (main.rs 21-27).                            *)
(***************************************************************************)
AcceptDest ==
    /\ Running
    /\ acceptorPc = "accept"
    /\ destCount < MaxDests
    /\ destCount' = destCount + 1
    /\ stream' = destCount + 1
    /\ acceptorPc' = "lock"
    /\ UNCHANGED <<destinations, locked, appendedAt, destLog, driverPc,
                   mainResult, sessionVars, sourceVars, ckVars>>

(* incoming() yields Err: the if-let skips it and the loop goes on *)
AcceptDestErr ==
    /\ Running
    /\ acceptorPc = "accept"
    /\ UNCHANGED vars

(* mutant: the push is made without taking the lock *)
AcceptorLock_NoMutex ==
    /\ Running
    /\ acceptorPc = "lock"
    /\ locked' = TRUE
    /\ acceptorPc' = "push"
    /\ UNCHANGED <<destinations, stream, destCount, appendedAt, destLog,
                   driverPc, mainResult, sessionVars, sourceVars, ckVars>>

AcceptorLock ==
    /\ Running
    /\ acceptorPc = "lock"
    /\ ~locked
    /\ locked' = TRUE
    /\ acceptorPc' = "push"
    /\ UNCHANGED <<destinations, stream, destCount, appendedAt, destLog,
                   driverPc, mainResult, sessionVars, sourceVars, ckVars>>

(* mutant: the connection is inserted at the front of the registry *)
AcceptorPush_Front ==
    /\ Running
    /\ acceptorPc = "push"
    /\ destinations' = <<stream>> \o destinations
    /\ appendedAt' = [appendedAt EXCEPT ![stream] = PassesBegun]
    /\ locked' = FALSE
    /\ stream' = 0
    /\ acceptorPc' = "accept"
    /\ UNCHANGED <<destCount, destLog, driverPc, mainResult, sessionVars,
                   sourceVars, ckVars>>

AcceptorPush ==
    /\ Running
    /\ acceptorPc = "push"
    /\ destinations' = Append(destinations, stream)
    /\ appendedAt' = [appendedAt EXCEPT ![stream] = PassesBegun]
    /\ locked' = FALSE
    /\ stream' = 0
    /\ acceptorPc' = "accept"
    /\ UNCHANGED <<destCount, destLog, driverPc, mainResult, sessionVars,
                   sourceVars, ckVars>>

(***************************************************************************)
(* Source clients (the environment of main.rs 31 and 42): a source         *)
(* connects, queues in the listener's backlog until accepted, sends its    *)
(* frames (at least one, MaxItems over all sources) and closes.  Sources   *)
(* are numbered in connect order.                                          *)
(***************************************************************************)
RECURSIVE ItemsSent(_)
ItemsSent(s) == IF s = 0 THEN 0 ELSE Len(srcFrames[s]) + ItemsSent(s - 1)

SourceConnect(s) ==
    /\ Running
    /\ srcState[s] = "idle"
    /\ s > 1 => srcState[s - 1] # "idle"
    /\ srcState' = [srcState EXCEPT ![s] = "queued"]
    /\ \E frames \in SeqsUpTo(Items, MaxItems - ItemsSent(MaxSources)) \ {<<>>} :
          srcFrames' = [srcFrames EXCEPT ![s] = frames]
    /\ UNCHANGED <<destinations, locked, acceptorVars, destLog, driverPc,
                   mainResult, sessionVars, srcPos, ckVars>>

Queued == {s \in Sources : srcState[s] = "queued"}
Oldest(S) == CHOOSE s \in S : \A t \in S : s <= t

(***************************************************************************)
(* Relay driver loop (main.rs 30-33).                                      *)
(***************************************************************************)
(* mutant: a source is accepted while a session is running *)
SourceAccept_Concurrent ==
    /\ Running
    /\ driverPc \in {"accept", "read"}
    /\ Queued # {}
    /\ srcState' = [srcState EXCEPT ![Oldest(Queued)] = "active"]
    /\ source_stream' = Oldest(Queued)
    /\ buffer' = <<>>
    /\ driverPc' = "read"
    /\ UNCHANGED <<destinations, locked, acceptorVars, destLog, mainResult,
                   srcFrames, srcPos, message, to_remove, i, decoded, ckVars>>

SourceAccept ==
    /\ Running
    /\ driverPc = "accept"
    /\ Queued # {}
    /\ srcState' = [srcState EXCEPT ![Oldest(Queued)] = "active"]
    /\ source_stream' = Oldest(Queued)
    /\ buffer' = <<>>
    /\ driverPc' = "read"
    /\ UNCHANGED <<destinations, locked, acceptorVars, destLog, mainResult,
                   srcFrames, srcPos, message, to_remove, i, decoded, ckVars>>

(* source_listener.accept()? returns Err: main returns it *)
SourceAcceptErr ==
    /\ Running
    /\ driverPc = "accept"
    /\ driverPc' = "exited"
    /\ mainResult' = "accept_err"
    /\ UNCHANGED <<destinations, locked, acceptorVars, destLog, sessionVars,
                   sourceVars, ckVars>>

(***************************************************************************)
(* handle_source: one iteration of the drain loop, up to the dispatch      *)
(* decision (main.rs 49-79 and 94-98).                                     *)
(***************************************************************************)
NotFound == 0 - 1

(* buffer.iter().position(|&b| b == 0xCC), 0-based *)
RECURSIVE PositionFrom(_, _)
PositionFrom(buf, k) ==
    IF k > Len(buf) THEN NotFound
    ELSE IF buf[k] = MAGIC THEN k - 1
    ELSE PositionFrom(buf, k + 1)

Position(buf) == PositionFrom(buf, 1)

(* what is left of v after v.drain(..n) *)
DrainFront(v, n) == SubSeq(v, n + 1, Len(v))

(* mutant: the checksum is verified but its result never drops a frame *)
Rejected_Never(msg, sensitive_bit, checksum) ==
    sensitive_bit = 1 /\ ~verify_checksum(msg, checksum) /\ msg = <<>>

(* mutant: the checksum is verified whatever the sensitive bit holds *)
Rejected_IgnoresBit(msg, sensitive_bit, checksum) ==
    sensitive_bit \in {0, 1} /\ ~verify_checksum(msg, checksum)

(* main.rs 76: the frame is dropped *)
Rejected(msg, sensitive_bit, checksum) ==
    sensitive_bit = 1 /\ ~verify_checksum(msg, checksum)

(* mutant: a partial header is thrown away instead of kept for the next read *)
DrainIter_DropsPartial(buf) ==
    LET pos == Position(buf)
        b1 == IF pos > 0 THEN DrainFront(buf, pos) ELSE buf
        length == from_be_bytes(b1[3], b1[4])
        msg == SubSeq(b1, 1, HEADER_LEN + length)
    IN  IF pos = NotFound \/ Len(b1) < HEADER_LEN
        THEN [buffer |-> <<>>, frame |-> <<>>, next |-> "read"]
        ELSE IF Len(b1) < HEADER_LEN + length
        THEN [buffer |-> b1, frame |-> <<>>, next |-> "read"]
        ELSE [buffer |-> DrainFront(b1, HEADER_LEN + length), frame |-> msg,
              next |-> IF Rejected(msg, Bit(b1[2], SENSITIVE_SHIFT),
                                   from_be_bytes(b1[5], b1[6]))
                       THEN "read" ELSE "lock"]

(* mutant: the frame is extracted once its header is there, payload or not *)
DrainIter_EagerPayload(buf) ==
    LET pos == Position(buf)
        b1 == IF pos > 0 THEN DrainFront(buf, pos) ELSE buf
        length == from_be_bytes(b1[3], b1[4])
        msg == SubSeq(b1, 1, Min(Len(b1), HEADER_LEN + length))
    IN  IF pos = NotFound
        THEN [buffer |-> <<>>, frame |-> <<>>, next |-> "read"]
        ELSE IF Len(b1) < HEADER_LEN
        THEN [buffer |-> b1, frame |-> <<>>, next |-> "read"]
        ELSE [buffer |-> DrainFront(b1, HEADER_LEN + length), frame |-> msg,
              next |-> IF Rejected(msg, Bit(b1[2], SENSITIVE_SHIFT),
                                   from_be_bytes(b1[5], b1[6]))
                       THEN "read" ELSE "lock"]

(* mutant: a buffer without a magic byte is kept instead of cleared *)
DrainIter_KeepsNoise(buf) ==
    LET pos == Position(buf)
        b1 == IF pos > 0 THEN DrainFront(buf, pos) ELSE buf
        length == from_be_bytes(b1[3], b1[4])
        msg == SubSeq(b1, 1, HEADER_LEN + length)
    IN  IF pos = NotFound
        THEN [buffer |-> buf, frame |-> <<>>, next |-> "read"]
        ELSE IF Len(b1) < HEADER_LEN \/ Len(b1) < HEADER_LEN + length
        THEN [buffer |-> b1, frame |-> <<>>, next |-> "read"]
        ELSE [buffer |-> DrainFront(b1, HEADER_LEN + length), frame |-> msg,
              next |-> IF Rejected(msg, Bit(b1[2], SENSITIVE_SHIFT),
                                   from_be_bytes(b1[5], b1[6]))
                       THEN "read" ELSE "lock"]

(* the buffer after the iteration, the frame it extracted (<<>>: none), and
   where control goes: "read" (break) or "lock" (broadcast the frame) *)
DrainIter(buf) ==
    LET pos == Position(buf)
        b1 == IF pos > 0 THEN DrainFront(buf, pos) ELSE buf
        length == from_be_bytes(b1[3], b1[4])
        options == b1[2]
        sensitive_bit == Bit(options, SENSITIVE_SHIFT)
        checksum == from_be_bytes(b1[5], b1[6])
        msg == SubSeq(b1, 1, HEADER_LEN + length)
    IN  IF pos = NotFound
        THEN [buffer |-> <<>>, frame |-> <<>>, next |-> "read"]
        ELSE IF Len(b1) < HEADER_LEN
        THEN [buffer |-> b1, frame |-> <<>>, next |-> "read"]
        ELSE IF Len(b1) < HEADER_LEN + length
        THEN [buffer |-> b1, frame |-> <<>>, next |-> "read"]
        ELSE [buffer |-> DrainFront(b1, HEADER_LEN + length), frame |-> msg,
              next |-> IF Rejected(msg, sensitive_bit, checksum)
                       THEN "read" ELSE "lock"]

(* the iteration run on buf: the buffer, the dispatched frame, the record of
   extracted frames and the place the session goes to *)
DrainStep(buf) ==
    \E r \in {DrainIter(buf)} :
        /\ buffer' = r.buffer
        /\ message' = IF r.next = "lock" THEN r.frame ELSE <<>>
        /\ decoded' = IF r.frame = <<>> THEN decoded
                      ELSE Append(decoded, [src |-> source_stream,
                                            msg |-> r.frame,
                                            pass |-> FALSE])
        /\ driverPc' = r.next

(***************************************************************************)
(* handle_source: the blocking read (main.rs 41-46), followed by the first *)
(* iteration of the drain loop.                                            *)
(***************************************************************************)
Remaining(s) == Len(StreamOf(s)) - srcPos[s]

ReadChunk ==
    /\ Running
    /\ driverPc = "read"
    /\ \E bytes_read \in 1..Min(Remaining(source_stream), READ_BUFFER_SIZE) :
          /\ DrainStep(buffer \o SubSeq(StreamOf(source_stream),
                                        srcPos[source_stream] + 1,
                                        srcPos[source_stream] + bytes_read))
          /\ srcPos' = [srcPos EXCEPT ![source_stream] = @ + bytes_read]
    /\ UNCHANGED <<destinations, locked, acceptorVars, destLog, mainResult,
                   source_stream, srcState, srcFrames, to_remove, i, ckVars>>

(* bytes_read == 0: break, Ok(()) to main, which loops to the next accept *)
ReadZero ==
    /\ Running
    /\ driverPc = "read"
    /\ Remaining(source_stream) = 0
    /\ srcState' = [srcState EXCEPT ![source_stream] = "closed"]
    /\ source_stream' = 0
    /\ buffer' = <<>>
    /\ driverPc' = "accept"
    /\ UNCHANGED <<destinations, locked, acceptorVars, destLog, mainResult,
                   srcFrames, srcPos, message, to_remove, i, decoded, ckVars>>

(* read(..)? returns Err: handle_source returns it, and main's ? returns it *)
ReadErr ==
    /\ Running
    /\ driverPc = "read"
    /\ srcState' = [srcState EXCEPT ![source_stream] = "closed"]
    /\ source_stream' = 0
    /\ buffer' = <<>>
    /\ driverPc' = "exited"
    /\ mainResult' = "read_err"
    /\ UNCHANGED <<destinations, locked, acceptorVars, destLog, srcFrames,
                   srcPos, message, to_remove, i, decoded, ckVars>>

(***************************************************************************)
(* handle_source: the broadcast pass (main.rs 83-93).                      *)
(***************************************************************************)
Lock ==
    /\ Running
    /\ driverPc = "lock"
    /\ ~locked
    /\ locked' = TRUE
    /\ to_remove' = <<>>
    /\ i' = 0
    /\ decoded' = [decoded EXCEPT ![Len(decoded)].pass = TRUE]
    /\ driverPc' = IF Len(destinations) = 0 THEN "prune" ELSE "write"
    /\ UNCHANGED <<destinations, acceptorVars, destLog, mainResult,
                   source_stream, sourceVars, buffer, message, ckVars>>

WriteEntry(bytes, ok) == [frame |-> Len(decoded), bytes |-> bytes, ok |-> ok]

(* mutant: the pass stops at the first failed write *)
WriteDest_StopsOnError ==
    /\ Running
    /\ driverPc = "write"
    /\ \E ok \in BOOLEAN :
          /\ destLog' = [destLog EXCEPT ![destinations[i + 1]] =
                             Append(@, WriteEntry(message, ok))]
          /\ to_remove' = IF ok THEN to_remove ELSE Append(to_remove, i)
          /\ i' = i + 1
          /\ driverPc' = IF i + 1 = Len(destinations) \/ ~ok
                         THEN "prune" ELSE "write"
    /\ UNCHANGED <<destinations, locked, acceptorVars, mainResult,
                   source_stream, sourceVars, buffer, message, decoded, ckVars>>

(* mutant: only the payload is written *)
WriteDest_PayloadOnly ==
    /\ Running
    /\ driverPc = "write"
    /\ \E ok \in BOOLEAN :
          /\ destLog' = [destLog EXCEPT ![destinations[i + 1]] =
                             Append(@, WriteEntry(Payload(message), ok))]
          /\ to_remove' = IF ok THEN to_remove ELSE Append(to_remove, i)
    /\ i' = i + 1
    /\ driverPc' = IF i + 1 = Len(destinations) THEN "prune" ELSE "write"
    /\ UNCHANGED <<destinations, locked, acceptorVars, mainResult,
                   source_stream, sourceVars, buffer, message, decoded, ckVars>>

(* one turn of the for loop: write_all on destination i *)
WriteDest ==
    /\ Running
    /\ driverPc = "write"
    /\ \E ok \in BOOLEAN :
          /\ destLog' = [destLog EXCEPT ![destinations[i + 1]] =
                             Append(@, WriteEntry(message, ok))]
          /\ to_remove' = IF ok THEN to_remove ELSE Append(to_remove, i)
    /\ i' = i + 1
    /\ driverPc' = IF i + 1 = Len(destinations) THEN "prune" ELSE "write"
    /\ UNCHANGED <<destinations, locked, acceptorVars, mainResult,
                   source_stream, sourceVars, buffer, message, decoded, ckVars>>

(* list.remove(ix), 0-based *)
Remove(list, ix) == SubSeq(list, 1, ix) \o SubSeq(list, ix + 2, Len(list))

(* mutant: the failed indexes are removed in ascending order *)
RECURSIVE RemoveRev_Ascending(_, _)
RemoveRev_Ascending(list, rem) ==
    IF rem = <<>> THEN list
    ELSE RemoveRev_Ascending(Remove(list, rem[1]), Tail(rem))

(* for i in to_remove.into_iter().rev() { list.remove(i) } *)
RECURSIVE RemoveRev(_, _)
RemoveRev(list, rem) ==
    IF rem = <<>> THEN list
    ELSE RemoveRev(Remove(list, rem[Len(rem)]), SubSeq(rem, 1, Len(rem) - 1))

(* mutant: the guard is not dropped when the iteration ends *)
Prune_KeepsLock ==
    /\ Running
    /\ driverPc = "prune"
    /\ destinations' = RemoveRev(destinations, to_remove)
    /\ locked' = TRUE
    /\ to_remove' = <<>>
    /\ i' = 0
    /\ DrainStep(buffer)
    /\ UNCHANGED <<acceptorVars, destLog, mainResult, source_stream,
                   sourceVars, ckVars>>

(* the removals; the guard is dropped at the end of the iteration and the
   drain loop runs its next iteration *)
Prune ==
    /\ Running
    /\ driverPc = "prune"
    /\ destinations' = RemoveRev(destinations, to_remove)
    /\ locked' = FALSE
    /\ to_remove' = <<>>
    /\ i' = 0
    /\ DrainStep(buffer)
    /\ UNCHANGED <<acceptorVars, destLog, mainResult, source_stream,
                   sourceVars, ckVars>>

Next ==
    \/ AcceptDest
    \/ AcceptDestErr
    \/ AcceptorLock
    \/ AcceptorPush
    \/ \E s \in Sources : SourceConnect(s)
    \/ SourceAccept
    \/ SourceAcceptErr
    \/ ReadChunk
    \/ ReadZero
    \/ ReadErr
    \/ Lock
    \/ WriteDest
    \/ Prune

Spec == Init /\ [][Next]_vars

(***************************************************************************)
(* The same relay fed by sources that send only plain frames, up to        *)
(* MaxBurst of them over all sources: long enough runs of forwarded        *)
(* frames for the ordering of a destination's writes.                      *)
(***************************************************************************)
SourceConnectPlain(s) ==
    /\ Running
    /\ srcState[s] = "idle"
    /\ s > 1 => srcState[s - 1] # "idle"
    /\ srcState' = [srcState EXCEPT ![s] = "queued"]
    /\ \E frames \in SeqsUpTo({PlainFrame}, MaxBurst - ItemsSent(MaxSources))
                          \ {<<>>} :
          srcFrames' = [srcFrames EXCEPT ![s] = frames]
    /\ UNCHANGED <<destinations, locked, acceptorVars, destLog, driverPc,
                   mainResult, sessionVars, srcPos, ckVars>>

NextOrder ==
    \/ AcceptDest
    \/ AcceptDestErr
    \/ AcceptorLock
    \/ AcceptorPush
    \/ \E s \in Sources : SourceConnectPlain(s)
    \/ SourceAccept
    \/ SourceAcceptErr
    \/ ReadChunk
    \/ ReadZero
    \/ ReadErr
    \/ Lock
    \/ WriteDest
    \/ Prune

SpecOrder == Init /\ [][NextOrder]_vars

(***************************************************************************)
(* Checksum harness: verify_checksum applied to frames a sender built      *)
(* over bounded payloads, before and after one payload bit is flipped.     *)
(***************************************************************************)
CkBytes == {0, 1, 128, 204, 255}
CkOptions == {0, 64}
Payloads == SeqsUpTo(CkBytes, MaxPayloadLen)

InitCk ==
    /\ InitRelay
    /\ ckPc = "input"
    /\ ckFrame \in {FrameOf(o, SenderChecksum(o, p), p) :
                        o \in CkOptions, p \in Payloads}
    /\ ckVerdict = FALSE
    /\ ckFlipped = FALSE
    /\ ckStated = 0
    /\ ckNext = NoDrain

CkVerify ==
    /\ ckPc = "input"
    /\ ckVerdict' = verify_checksum(ckFrame, Stated(ckFrame))
    /\ ckPc' = "verified"
    /\ UNCHANGED <<ckFrame, ckFlipped, ckStated, ckNext, relayVars>>

CkFlip(ix, k) ==
    /\ ckPc \in {"input", "verified"}
    /\ ~ckFlipped
    /\ ix \in (HEADER_LEN + 1)..Len(ckFrame)
    /\ ckFrame' = [ckFrame EXCEPT ![ix] = FlipBit(@, k)]
    /\ ckFlipped' = TRUE
    /\ ckVerdict' = FALSE
    /\ ckPc' = "input"
    /\ UNCHANGED <<ckStated, ckNext, relayVars>>

NextCk ==
    \/ CkVerify
    \/ \E ix \in 1..(HEADER_LEN + MaxPayloadLen) : \E k \in 0..7 : CkFlip(ix, k)

SpecCk == InitCk /\ [][NextCk]_vars

(***************************************************************************)
(* C9: a frame whose stated checksum is the sender's (computed with the    *)
(* checksum field as 0xCCCC) verifies, for payloads of even and odd        *)
(* length; after any single payload bit is flipped, the stated checksum    *)
(* kept, it does not verify.                                               *)
(***************************************************************************)
C9_RoundTripAndBitFlip ==
    ckPc = "verified" => (ckVerdict <=> ~ckFlipped)

C9_Witness ==
    /\ ckPc = "verified"
    /\ ckFlipped
    /\ ~ckVerdict
    /\ Len(Payload(ckFrame)) = 3
    /\ Sensitive(ckFrame)

(***************************************************************************)
(* Vocabulary of the claims.                                               *)
(***************************************************************************)
CurFrame == Len(decoded)
InPass == driverPc \in {"write", "prune"}
Registered == {destinations[ix] : ix \in 1..Len(destinations)}

(* the write_all calls on destination d that carried frame f *)
WritesOf(d, f) == {k \in DOMAIN destLog[d] : destLog[d][k].frame = f}

RECURSIVE MsgsOf(_, _)
MsgsOf(entries, s) ==
    IF entries = <<>> THEN <<>>
    ELSE IF Head(entries).src = s
         THEN <<Head(entries).msg>> \o MsgsOf(Tail(entries), s)
         ELSE MsgsOf(Tail(entries), s)

(* the frames extracted, and those broadcast, in the session of source s *)
DecodedOf(s) == MsgsOf(decoded, s)
PassedOf(s) == MsgsOf(SelectSeq(decoded, LAMBDA e : e.pass), s)

(* the frames of a stream that are complete within its first n bytes *)
RECURSIVE CompleteFrames(_, _)
CompleteFrames(frames, n) ==
    IF frames = <<>> \/ Len(Head(frames)) > n THEN <<>>
    ELSE <<Head(frames)>> \o CompleteFrames(Tail(frames), n - Len(Head(frames)))

AllValid(s) == \A k \in DOMAIN srcFrames[s] : ValidFrame(srcFrames[s][k])

(***************************************************************************)
(* C1: a frame with the sensitive bit clear is written, to every           *)
(* destination that is in the registry during its pass, exactly once, and  *)
(* a write that succeeds carries exactly the 8+length bytes of the frame.  *)
(***************************************************************************)
C1_PlainFrameVerbatim ==
    /\ \A d \in Dests : \A k \in DOMAIN destLog[d] :
          LET e == destLog[d][k]
              f == decoded[e.frame].msg
          IN  (~Sensitive(f) /\ e.ok) =>
                  /\ e.bytes = f
                  /\ Len(e.bytes) = HEADER_LEN + Length(f)
    /\ \A d \in Dests : \A f \in DOMAIN decoded :
          ~Sensitive(decoded[f].msg) => Cardinality(WritesOf(d, f)) <= 1
    /\ (driverPc = "prune" /\ ~Sensitive(message)) =>
          \A d \in Registered : Cardinality(WritesOf(d, CurFrame)) = 1

C1_Witness ==
    /\ driverPc = "prune"
    /\ message = PlainFrame
    /\ Len(destinations) = 2
    /\ \A d \in Registered : \E k \in WritesOf(d, CurFrame) :
          destLog[d][k].ok /\ destLog[d][k].bytes = PlainFrame

(***************************************************************************)
(* C2: the frames written to a destination are in the order the decoder    *)
(* completed them, and form a contiguous run of the forwarded frames: no   *)
(* forwarded frame between two consecutive writes is skipped.              *)
(***************************************************************************)
C2_WriteOrder ==
    \A d \in Dests : \A k \in DOMAIN destLog[d] :
        LET e == destLog[d][k]
        IN  /\ e.frame \in DOMAIN decoded
            /\ decoded[e.frame].pass
            /\ e.bytes = decoded[e.frame].msg
            /\ k > 1 =>
                  /\ destLog[d][k - 1].frame < e.frame
                  /\ \A j \in (destLog[d][k - 1].frame + 1)..(e.frame - 1) :
                        ~decoded[j].pass

C2_Witness ==
    /\ Len(destLog[1]) = 3
    /\ \A k \in 1..3 : destLog[1][k].frame = k /\ destLog[1][k].ok
    /\ Len(destLog[2]) = 2
    /\ \A k \in 1..2 : destLog[2][k].frame = k + 1

(***************************************************************************)
(* C3: a frame with the sensitive bit set is broadcast if and only if      *)
(* verify_checksum accepts its stated checksum: with a wrong checksum no   *)
(* destination is written, with the right one every destination of the     *)
(* registry is written the frame's bytes exactly once.                     *)
(***************************************************************************)
C3_SensitiveIffChecksum ==
    /\ \A f \in DOMAIN decoded :
          LET m == decoded[f].msg
              accepted == verify_checksum(m, Stated(m))
          IN  Sensitive(m) =>
                  /\ accepted <=> ValidFrame(m)
                  /\ decoded[f].pass => accepted
                  /\ (~decoded[f].pass /\ ~(f = CurFrame /\ driverPc = "lock"))
                         => ~accepted
                  /\ ~accepted => \A d \in Dests : WritesOf(d, f) = {}
    /\ (driverPc = "prune" /\ Sensitive(message)) =>
          \A d \in Registered :
              /\ Cardinality(WritesOf(d, CurFrame)) = 1
              /\ \A k \in WritesOf(d, CurFrame) : destLog[d][k].bytes = message

C3_Witness ==
    /\ driverPc = "prune"
    /\ message = SensFrame
    /\ CurFrame = 2
    /\ decoded[1].msg = BadFrame
    /\ ~decoded[1].pass
    /\ Len(destinations) = 2
    /\ \A d \in Registered :
          /\ WritesOf(d, 1) = {}
          /\ \E k \in WritesOf(d, 2) : destLog[d][k].ok

(***************************************************************************)
(* C4 (as claimed): a dropped frame does not hold back the frames after    *)
(* it: once a session has read all the bytes of its source and is closed,  *)
(* every frame of the stream has been decoded.                             *)
(***************************************************************************)
C4_DecodesPastDroppedFrame ==
    \A s \in Sources :
        (srcState[s] = "closed" /\ srcPos[s] = Len(StreamOf(s)))
            => DecodedOf(s) = srcFrames[s]

(***************************************************************************)
(* C5: for a stream of valid frames, the frames decoded and broadcast      *)
(* when the session waits in read, or is closed, are the frames complete   *)
(* within the bytes read so far, whatever chunks they were read in.        *)
(***************************************************************************)
C5_SplitInvariance ==
    \A s \in Sources :
        (/\ AllValid(s)
         /\ \/ srcState[s] = "closed"
            \/ srcState[s] = "active" /\ driverPc = "read")
            => /\ DecodedOf(s) = CompleteFrames(srcFrames[s], srcPos[s])
               /\ PassedOf(s) = DecodedOf(s)

C5_Witness ==
    /\ driverPc = "read"
    /\ source_stream = 1
    /\ srcFrames[1] = <<SensFrame, PlainFrame>>
    /\ srcPos[1] = Len(SensFrame) + 3
    /\ Len(buffer) = 3
    /\ DecodedOf(1) = <<SensFrame>>

(***************************************************************************)
(* C6: a failed write does not stop the pass: every destination of the     *)
(* registry is attempted; the failed destination is out of the registry    *)
(* when the pass ends, is never written again, and no frame is written     *)
(* twice to a destination.                                                 *)
(***************************************************************************)
C6_WriteFailureIsolated ==
    /\ driverPc = "prune" =>
          \A d \in Registered : WritesOf(d, CurFrame) # {}
    /\ ~InPass =>
          \A d \in Registered : \A k \in DOMAIN destLog[d] : destLog[d][k].ok
    /\ \A d \in Dests : \A k \in DOMAIN destLog[d] :
          ~destLog[d][k].ok => k = Len(destLog[d])
    /\ \A d \in Dests : \A f \in DOMAIN decoded :
          Cardinality(WritesOf(d, f)) <= 1

C6_Witness ==
    /\ Len(destLog[1]) = 1
    /\ destLog[1][1].frame = 1
    /\ ~destLog[1][1].ok
    /\ Len(destLog[2]) = 2
    /\ destLog[2][1].frame = 1
    /\ destLog[2][1].ok
    /\ destLog[2][2].frame = 2
    /\ destinations = <<2>>
    /\ ~InPass

(***************************************************************************)
(* C7: at most one source session is active; a source that has connected   *)
(* but is not yet accepted has had no byte read and no frame decoded, and  *)
(* the frames of different sources are never interleaved.                  *)
(***************************************************************************)
C7_OneActiveSource ==
    /\ Cardinality({s \in Sources : srcState[s] = "active"}) <= 1
    /\ \A s \in Sources : srcState[s] = "active" <=> source_stream = s
    /\ driverPc = "accept" => source_stream = 0
    /\ \A s \in Sources : srcState[s] \in {"idle", "queued"} =>
          /\ srcPos[s] = 0
          /\ DecodedOf(s) = <<>>
    /\ \A j, k \in DOMAIN decoded : j < k => decoded[j].src <= decoded[k].src

C7_Witness ==
    /\ srcState[1] = "active"
    /\ srcPos[1] > 0
    /\ DecodedOf(1) # <<>>
    /\ srcState[2] = "queued"
    /\ driverPc = "read"

(***************************************************************************)
(* C8 (as claimed): only a failure of the source listener's accept ends    *)
(* the driver loop; a read error on the source connection ends the         *)
(* session alone.                                                          *)
(***************************************************************************)
C8_OnlyAcceptFailureStopsDriver ==
    mainResult # "running" => mainResult = "accept_err"

(***************************************************************************)
(* C10: the acceptor's append and the session's pass never overlap; the    *)
(* lock is held exactly while one of them is inside its critical section;  *)
(* the registry changes only in a step that releases the lock, and not     *)
(* between the writes of a pass and its prune.                             *)
(***************************************************************************)
C10_MutexInv ==
    /\ ~(acceptorPc = "push" /\ InPass)
    /\ locked <=> (acceptorPc = "push" \/ InPass)

C10_RegistryStep ==
    /\ destinations' # destinations => (locked /\ ~locked')
    /\ (InPass /\ driverPc' \in {"write", "prune"}) => destinations' = destinations

C10_RegistrySerialized == [](C10_MutexInv) /\ [][C10_RegistryStep]_vars

C10_Witness ==
    /\ acceptorPc = "lock"
    /\ stream = 2
    /\ driverPc = "write"
    /\ locked
    /\ destinations = <<1>>

(***************************************************************************)
(* C11: registration takes effect from the next frame on and is never      *)
(* retroactive.  A destination whose append completed before a pass took   *)
(* the lock is written that pass's frame and every later forwarded frame   *)
(* until one of its writes fails; no destination is written a frame whose  *)
(* pass took the lock before the destination was appended.                 *)
(***************************************************************************)
(* the number of the pass that forwarded decoded[f], counting from 1 *)
PassNo(f) == Len(SelectSeq(SubSeq(decoded, 1, f), LAMBDA e : e.pass))

(* the write loop of the pass for decoded[f] has run to its end *)
PassWritten(f) ==
    /\ decoded[f].pass
    /\ f < CurFrame \/ driverPc # "write"

FailedBefore(d, f) ==
    \E k \in DOMAIN destLog[d] : ~destLog[d][k].ok /\ destLog[d][k].frame < f

C11_RegistrationFromNextFrame ==
    \A d \in Dests :
        /\ \A k \in DOMAIN destLog[d] :
               /\ appendedAt[d] # NotYet
               /\ PassNo(destLog[d][k].frame) > appendedAt[d]
        /\ appendedAt[d] # NotYet =>
               \A f \in DOMAIN decoded :
                   PassWritten(f) /\ PassNo(f) > appendedAt[d] =>
                       WritesOf(d, f) # {} \/ FailedBefore(d, f)

(* destination 2 was appended after the first pass and before the second:
   it has the second and the third frame and not the first, destination 1
   has all three *)
C11_Witness ==
    /\ appendedAt[1] = 0
    /\ appendedAt[2] = 1
    /\ CurFrame = 3
    /\ driverPc = "prune"
    /\ \A f \in 1..3 : WritesOf(1, f) # {}
    /\ WritesOf(2, 1) = {}
    /\ WritesOf(2, 2) # {} /\ WritesOf(2, 3) # {}

(***************************************************************************)
(* The relay with one destination in its registry, fed by one source whose *)
(* stream holds, between frames, bytes that are no frame: noise without a  *)
(* magic byte, and a stray magic byte that makes the decoder read a header *)
(* out of step.  Up to MaxNoisy items.                                     *)
(***************************************************************************)
NoiseItem == <<1, 2>>
StrayItem == <<MAGIC>>
NoisyItems == {NoiseItem, StrayItem, PlainFrame, SensFrame}

(* the destination has connected and was pushed before the source connects *)
InitNoisy ==
    /\ destinations = <<1>>
    /\ destCount = 1
    /\ appendedAt = [d \in Dests |-> IF d = 1 THEN 0 ELSE NotYet]
    /\ locked = FALSE
    /\ acceptorPc = "accept"
    /\ stream = 0
    /\ destLog = [d \in Dests |-> <<>>]
    /\ driverPc = "accept"
    /\ mainResult = "running"
    /\ source_stream = 0
    /\ srcState = [s \in Sources |-> "idle"]
    /\ srcFrames = [s \in Sources |-> <<>>]
    /\ srcPos = [s \in Sources |-> 0]
    /\ buffer = <<>>
    /\ message = <<>>
    /\ to_remove = <<>>
    /\ i = 0
    /\ decoded = <<>>
    /\ ckFrame = <<>>
    /\ ckPc = "off"
    /\ ckVerdict = FALSE
    /\ ckFlipped = FALSE
    /\ ckStated = 0
    /\ ckNext = NoDrain

SourceConnectNoisy ==
    /\ Running
    /\ srcState[1] = "idle"
    /\ srcState' = [srcState EXCEPT ![1] = "queued"]
    /\ \E frames \in SeqsUpTo(NoisyItems, MaxNoisy) \ {<<>>} :
          srcFrames' = [srcFrames EXCEPT ![1] = frames]
    /\ UNCHANGED <<destinations, locked, acceptorVars, destLog, driverPc,
                   mainResult, sessionVars, srcPos, ckVars>>

NextNoisy ==
    \/ SourceConnectNoisy
    \/ SourceAccept
    \/ SourceAcceptErr
    \/ ReadChunk
    \/ ReadZero
    \/ ReadErr
    \/ Lock
    \/ WriteDest
    \/ Prune

SpecNoisy == InitNoisy /\ [][NextNoisy]_vars

(***************************************************************************)
(* C12: noise before a frame is dropped.  In a stream of valid frames and  *)
(* of bytes none of which is 0xCC, the decoder discards exactly the noise  *)
(* bytes and decodes exactly the frames; a buffer with no 0xCC at all is   *)
(* discarded whole, no frame is decoded from it and nothing is written.    *)
(***************************************************************************)
Clean(s) ==
    \A k \in DOMAIN srcFrames[s] :
        \/ srcFrames[s][k] = NoiseItem
        \/ srcFrames[s][k] \in Items /\ ValidFrame(srcFrames[s][k])

(* the bytes read of the frame the stream of s is in the middle of *)
PendingOf(s) ==
    LET done == CompleteFrames(srcFrames[s], srcPos[s])
        k == Len(done) + 1
    IN  IF k <= Len(srcFrames[s]) /\ srcFrames[s][k] # NoiseItem
        THEN SubSeq(srcFrames[s][k], 1, srcPos[s] - Len(Flatten(done)))
        ELSE <<>>

C12_NoiseDropped ==
    /\ \A s \in Sources :
          (/\ Clean(s)
           /\ \/ srcState[s] = "closed"
              \/ srcState[s] = "active" /\ driverPc = "read")
              => /\ DecodedOf(s) =
                        SelectSeq(CompleteFrames(srcFrames[s], srcPos[s]),
                                  LAMBDA x : x # NoiseItem)
                 /\ PassedOf(s) = DecodedOf(s)
                 /\ srcState[s] = "active" => buffer = PendingOf(s)
    /\ \A d \in Dests : \A k \in DOMAIN destLog[d] :
          Clean(decoded[destLog[d][k].frame].src) =>
              destLog[d][k].bytes \in Items

C12_Witness ==
    /\ srcFrames[1] = <<NoiseItem, SensFrame>>
    /\ srcState[1] = "closed"
    /\ DecodedOf(1) = <<SensFrame>>
    /\ Len(destLog[1]) = 1
    /\ destLog[1][1].bytes = SensFrame

(***************************************************************************)
(* Frame harness: one complete frame, built over bounded payloads with the *)
(* checksum field holding the sender's checksum or some other value, is    *)
(* handed to verify_checksum with a stated checksum of its own, or to one  *)
(* iteration of the drain loop as the whole buffer.                        *)
(***************************************************************************)
CkFields(o, p) == {SenderChecksum(o, p), 0, PLACEHOLDER}
CkArgs(frame) ==
    {SenderChecksum(frame[2], Payload(frame)), Stated(frame), 0, U16 - 1}

InitFrame ==
    /\ InitRelay
    /\ ckPc = "frame"
    /\ ckFrame \in UNION {{FrameOf(o, c, p) : c \in CkFields(o, p)} :
                              o \in CkOptions, p \in Payloads}
    /\ ckVerdict = FALSE
    /\ ckFlipped = FALSE
    /\ ckStated = 0
    /\ ckNext = NoDrain

CkVerifyArg ==
    /\ ckPc = "frame"
    /\ \E checksum \in CkArgs(ckFrame) :
          /\ ckStated' = checksum
          /\ ckVerdict' = verify_checksum(ckFrame, checksum)
    /\ ckPc' = "checked"
    /\ UNCHANGED <<ckFrame, ckFlipped, ckNext, relayVars>>

CkDrain ==
    /\ ckPc = "frame"
    /\ ckNext' = DrainIter(ckFrame)
    /\ ckPc' = "drained"
    /\ UNCHANGED <<ckFrame, ckVerdict, ckFlipped, ckStated, relayVars>>

NextFrame ==
    \/ CkVerifyArg
    \/ CkDrain

SpecFrame == InitFrame /\ [][NextFrame]_vars

(***************************************************************************)
(* C13: a frame whose sensitive bit is clear is forwarded whatever its     *)
(* checksum field holds: for every value of bytes 4-5, a mismatching one   *)
(* included, the drain iteration extracts the frame whole and goes on to   *)
(* broadcast it.                                                           *)
(***************************************************************************)
C13_PlainIgnoresChecksum ==
    (ckPc = "drained" /\ ~Sensitive(ckFrame)) =>
        /\ ckNext.next = "lock"
        /\ ckNext.frame = ckFrame
        /\ ckNext.buffer = <<>>

C13_Witness ==
    /\ ckPc = "drained"
    /\ ~Sensitive(ckFrame)
    /\ Stated(ckFrame) # SenderChecksum(ckFrame[2], Payload(ckFrame))
    /\ ~verify_checksum(ckFrame, Stated(ckFrame))
    /\ ckNext.next = "lock"
    /\ ckNext.frame = ckFrame

(***************************************************************************)
(* C14: drain completeness.  Whenever the session is back at the blocking  *)
(* read, the buffer holds no complete frame: it is empty, or it starts at  *)
(* a magic byte and holds fewer than 8 bytes, or fewer than 8+length bytes *)
(* for the header at its front.                                            *)
(***************************************************************************)
NoCompleteFrame(buf) ==
    \/ buf = <<>>
    \/ /\ buf[1] = MAGIC
       /\ \/ Len(buf) < HEADER_LEN
          \/ Len(buf) < HEADER_LEN + Length(buf)

C14_DrainComplete ==
    driverPc = "read" => NoCompleteFrame(buffer)

(***************************************************************************)
(* C15: a frame is extracted only when at least 8+length bytes are there   *)
(* from the magic byte on.  While the header or the payload is partial the *)
(* bytes from the magic byte on stay in the buffer as they are, so that    *)
(* the next read appends to them, and nothing is written for them.         *)
(***************************************************************************)
C15_WaitsForWholeFrame ==
    /\ \A f \in DOMAIN decoded :
          /\ decoded[f].msg[1] = MAGIC
          /\ Len(decoded[f].msg) = HEADER_LEN + Length(decoded[f].msg)
    /\ (source_stream # 0 /\ srcState[source_stream] = "active") =>
          Flatten(DecodedOf(source_stream)) \o buffer
              = SubSeq(StreamOf(source_stream), 1, srcPos[source_stream])
    /\ \A d \in Dests : \A k \in DOMAIN destLog[d] :
          /\ destLog[d][k].frame \in DOMAIN decoded
          /\ destLog[d][k].bytes = decoded[destLog[d][k].frame].msg

(* the header of the sensitive frame is in, its payload byte is not *)
C15_Witness ==
    /\ driverPc = "read"
    /\ buffer = SubSeq(SensFrame, 1, HEADER_LEN)
    /\ srcPos[source_stream] = HEADER_LEN
    /\ decoded = <<>>
    /\ destinations # <<>>
    /\ \A d \in Dests : destLog[d] = <<>>

(***************************************************************************)
(* Broadcast harness: a session has extracted a plain frame, a second one  *)
(* is in its buffer, and 0..MaxRegistry destinations have connected before *)
(* them.  The two passes run with every outcome of every write.            *)
(***************************************************************************)
InitPrune ==
    /\ \E n \in 0..MaxRegistry :
          /\ destinations = [k \in 1..n |-> k]
          /\ destCount = n
          /\ appendedAt = [d \in 1..MaxRegistry |->
                              IF d <= n THEN 0 ELSE NotYet]
    /\ locked = FALSE
    /\ acceptorPc = "accept"
    /\ stream = 0
    /\ destLog = [d \in 1..MaxRegistry |-> <<>>]
    /\ driverPc = "lock"
    /\ mainResult = "running"
    /\ source_stream = 1
    /\ srcState = [s \in Sources |-> IF s = 1 THEN "active" ELSE "idle"]
    /\ srcFrames = [s \in Sources |->
                       IF s = 1 THEN <<PlainFrame, PlainFrame>> ELSE <<>>]
    /\ srcPos = [s \in Sources |-> IF s = 1 THEN 2 * Len(PlainFrame) ELSE 0]
    /\ buffer = PlainFrame
    /\ message = PlainFrame
    /\ to_remove = <<>>
    /\ i = 0
    /\ decoded = <<[src |-> 1, msg |-> PlainFrame, pass |-> FALSE]>>
    /\ ckFrame = <<>>
    /\ ckPc = "off"
    /\ ckVerdict = FALSE
    /\ ckFlipped = FALSE
    /\ ckStated = 0
    /\ ckNext = NoDrain

NextPrune ==
    \/ Lock
    \/ WriteDest
    \/ Prune

SpecPrune == InitPrune /\ [][NextPrune]_vars

(***************************************************************************)
(* C16: pruning is exact and keeps the order.  For every registry and      *)
(* every set of destinations whose write failed in the pass (first, last,  *)
(* adjacent, all, none), the registry after the pass is the registry       *)
(* before it without the failed ones, the others in their order; a         *)
(* destination whose write succeeded is never removed.                     *)
(***************************************************************************)
WriteOk(d, f) == \A k \in WritesOf(d, f) : destLog[d][k].ok

C16_PruneStep ==
    driverPc = "prune" /\ driverPc' # "prune" =>
        destinations' = SelectSeq(destinations, LAMBDA d : WriteOk(d, CurFrame))

C16_PruneExact == [][C16_PruneStep]_vars

(* of four destinations the two in the middle failed in the first pass *)
C16_Witness ==
    /\ destinations = <<1, 4>>
    /\ destCount = 4
    /\ CurFrame = 2
    /\ driverPc = "lock"
    /\ ~destLog[2][1].ok
    /\ ~destLog[3][1].ok

(***************************************************************************)
(* C17: verify_checksum(message, stated) is true exactly when stated is    *)
(* the bitwise complement of the 16-bit end-around-carry sum of the        *)
(* message's big-endian 16-bit words, the word at offset 4 taken as 0xCCCC *)
(* and a trailing odd byte padded with a zero low byte.  The result does   *)
(* not depend on the bytes at offsets 4 and 5, and the running sum is at   *)
(* most 0xFFFF after every step.                                           *)
(***************************************************************************)
(* the one's complement sum of a positive total of 16-bit words *)
EndAround(total) == ((total - 1) % (U16 - 1)) + 1

ComplementOfSum(msg) ==
    LET field == to_be_bytes(PLACEHOLDER)
    IN  (U16 - 1)
            - EndAround(WordsTotal([msg EXCEPT ![CHECKSUM_INDEX + 1] = field[1],
                                               ![CHECKSUM_INDEX + 2] = field[2]],
                                   1))

(* the sum after each turn of the while loop at main.rs 111 *)
RunningSums(msg) ==
    {SumFrom(SubSeq(msg, 1, n), 0, 0) :
        n \in {m \in 1..Len(msg) : m % 2 = 0 \/ m = Len(msg)}}

C17_ChecksumDefinition ==
    ckPc = "checked" =>
        /\ ckVerdict <=> (ckStated = ComplementOfSum(ckFrame))
        /\ \A hi \in CkBytes, lo \in CkBytes :
              verify_checksum([ckFrame EXCEPT ![CHECKSUM_INDEX + 1] = hi,
                                              ![CHECKSUM_INDEX + 2] = lo],
                              ckStated) = ckVerdict
        /\ \A sum \in RunningSums(ckFrame) : sum <= U16 - 1

(* an odd-length message whose words carry out of 16 bits verifies against
   the right stated checksum while its bytes 4-5 hold something else *)
C17_Witness ==
    /\ ckPc = "checked"
    /\ ckVerdict
    /\ Stated(ckFrame) # ckStated
    /\ Len(ckFrame) % 2 = 1
    /\ WordsTotal(ckFrame, 1) > U16

(***************************************************************************)
(* C18: the destination acceptor never terminates and never loses or       *)
(* reorders a connection.  A failed accept is skipped; every accepted      *)
(* connection is appended to the end of the registry exactly once, under   *)
(* the lock, so that the registry is in connect order; the acceptor runs   *)
(* whether or not a source session is active.                              *)
(***************************************************************************)
EverFailed(d) == \E k \in DOMAIN destLog[d] : ~destLog[d][k].ok

C18_AcceptorKeepsOrder ==
    /\ acceptorPc \in {"accept", "lock", "push"}
    /\ acceptorPc = "accept" <=> stream = 0
    /\ acceptorPc # "accept" => stream = destCount /\ stream \notin Registered
    /\ acceptorPc = "push" => locked
    /\ \A k \in 1..(Len(destinations) - 1) :
          destinations[k] < destinations[k + 1]
    /\ \A d \in Registered : d <= destCount
    /\ \A d \in 1..destCount :
          d = stream \/ d \in Registered \/ EverFailed(d)
    /\ (Running /\ acceptorPc = "accept" /\ destCount < MaxDests) =>
          ENABLED AcceptDest

(* both destinations were appended, in connect order, before any source
   connected *)
C18_Witness ==
    /\ destinations = <<1, 2>>
    /\ acceptorPc = "accept"
    /\ driverPc = "accept"
    /\ \A s \in Sources : srcState[s] = "idle"

(***************************************************************************)
(* The relay under fair scheduling: a thread that can take a step          *)
(* eventually takes it.  Every write_all on a destination eventually       *)
(* returns, with Ok or Err (WriteDest); a free lock is eventually taken by *)
(* a thread waiting for it; the holder of the lock goes on to release it.  *)
(* Accepts, reads and the connecting of clients wait for the peer and are  *)
(* not forced.  One source sends up to MaxFair plain frames.               *)
(***************************************************************************)
Fairness ==
    /\ WF_vars(AcceptorLock)
    /\ WF_vars(AcceptorPush)
    /\ WF_vars(Lock)
    /\ WF_vars(WriteDest)
    /\ WF_vars(Prune)

(* one source, sending up to MaxFair plain frames *)
SourceConnectFair ==
    /\ Running
    /\ srcState[1] = "idle"
    /\ srcState' = [srcState EXCEPT ![1] = "queued"]
    /\ \E frames \in SeqsUpTo({PlainFrame}, MaxFair) \ {<<>>} :
          srcFrames' = [srcFrames EXCEPT ![1] = frames]
    /\ UNCHANGED <<destinations, locked, acceptorVars, destLog, driverPc,
                   mainResult, sessionVars, srcPos, ckVars>>

NextFair ==
    \/ AcceptDest
    \/ AcceptDestErr
    \/ AcceptorLock
    \/ AcceptorPush
    \/ SourceConnectFair
    \/ SourceAccept
    \/ SourceAcceptErr
    \/ ReadChunk
    \/ ReadZero
    \/ ReadErr
    \/ Lock
    \/ WriteDest
    \/ Prune

SpecFair == Init /\ [][NextFair]_vars /\ Fairness

(***************************************************************************)
(* C19: no deadlock on the registry lock.  Given that every destination    *)
(* write eventually completes or fails, every broadcast pass terminates    *)
(* and releases the lock, a waiting acceptor append eventually completes   *)
(* and the session eventually returns to the read; while a write is        *)
(* blocked no later frame is broadcast and no destination is appended.     *)
(***************************************************************************)
(* the lock is held exactly by a thread that is in its critical section *)
C19_HolderRuns ==
    /\ locked <=> (InPass \/ acceptorPc = "push")
    /\ InPass => ENABLED (WriteDest \/ Prune)
    /\ (Running /\ acceptorPc = "push") => ENABLED AcceptorPush
    /\ (~locked /\ driverPc = "lock") => ENABLED Lock
    /\ (~locked /\ Running /\ acceptorPc = "lock") => ENABLED AcceptorLock

(* a step taken while the session stays in the same write *)
C19_BlockedStep ==
    (driverPc = "write" /\ driverPc' = "write" /\ i' = i) =>
        /\ destinations' = destinations
        /\ decoded' = decoded
        /\ destLog' = destLog

C19_NoLockDeadlock ==
    /\ [](C19_HolderRuns)
    /\ [][C19_BlockedStep]_vars
    /\ InPass ~> ~locked
    /\ acceptorPc = "lock" ~> (acceptorPc = "accept" \/ ~Running)
    /\ driverPc \in {"lock", "write", "prune"} ~> driverPc = "read"

(* a write of the pass has failed and the acceptor waits for the lock *)
C19_Witness ==
    /\ acceptorPc = "lock"
    /\ driverPc = "prune"
    /\ locked
    /\ to_remove = <<0>>

(***************************************************************************)
(* C20: only well-formed frames reach destinations.  Whatever bytes the    *)
(* sources send and however the reads split them, every byte sequence      *)
(* handed to a destination write starts with 0xCC, has exactly 8 plus the  *)
(* big-endian value of its bytes 2-3 bytes and, when bit 6 of its byte 1   *)
(* is set, passes verify_checksum against its bytes 4-5; noise that was    *)
(* discarded and frames that were dropped are never written.               *)
(***************************************************************************)
WellFormed(bytes) ==
    /\ Len(bytes) >= HEADER_LEN
    /\ bytes[1] = MAGIC
    /\ Len(bytes) = HEADER_LEN + Length(bytes)
    /\ Sensitive(bytes) => verify_checksum(bytes, Stated(bytes))

C20_OnlyWellFormedWritten ==
    /\ \A d \in Dests : \A k \in DOMAIN destLog[d] :
          /\ destLog[d][k].frame \in DOMAIN decoded
          /\ decoded[destLog[d][k].frame].pass
          /\ destLog[d][k].bytes = decoded[destLog[d][k].frame].msg
    /\ \A f \in DOMAIN decoded :
          decoded[f].pass => WellFormed(decoded[f].msg)

(* a stray magic byte made the decoder take it and the head of the plain
   frame for a sensitive frame, which it dropped; the frame after them is
   what the destination was written *)
C20_Witness ==
    /\ srcFrames[1] = <<StrayItem, PlainFrame, SensFrame>>
    /\ srcState[1] = "closed"
    /\ Len(decoded) = 2
    /\ ~decoded[1].pass
    /\ decoded[1].msg = StrayItem \o SubSeq(PlainFrame, 1, HEADER_LEN - 1)
    /\ Len(destLog[1]) = 1
    /\ destLog[1][1].bytes = SensFrame

====
